---- MODULE Spec2Model ----
(***************************************************************************)
(* Model of the adm-allo-player: the static channel tables and their       *)
(* lookup helpers (channelMapping.hpp) and the streaming player            *)
(* adm_player (mainplayer.hpp): file load, chunk load, the audio callback  *)
(* onSound and the control events of onKeyDown / onDraw.                   *)
(*                                                                         *)
(* Samples are fixed-point integers.  A gain value g stands for g gain     *)
(* steps of 0.5, so the default gain 0.5f is 1 and an output sample is     *)
(* fileSample * gain in half units.  meterDecayRate 0.95f is the ratio     *)
(* DecayNum / DecayDen applied with truncation.                            *)
(***************************************************************************)
EXTENDS Integers, Sequences, FiniteSets

(***************************************************************************)
(* channelMapping.hpp                                                      *)
(***************************************************************************)
NUM_CHANNELS == 55

\* pairs << audioFileChannel, allosphereOutputChannel >>, 0-indexed
defaultChannelMap ==
  << <<0, 0>>, <<1, 1>>, <<2, 2>>, <<3, 3>>, <<4, 4>>, <<5, 5>>, <<6, 6>>, <<7, 7>>,
     <<8, 8>>, <<9, 9>>, <<10, 10>>, <<11, 11>>,
     <<12, 16>>, <<13, 17>>, <<14, 18>>, <<15, 19>>, <<16, 20>>, <<17, 21>>,
     <<18, 22>>, <<19, 23>>, <<20, 24>>, <<21, 25>>, <<22, 26>>, <<23, 27>>,
     <<24, 28>>, <<25, 29>>, <<26, 30>>, <<27, 31>>, <<28, 32>>, <<29, 33>>,
     <<30, 34>>, <<31, 35>>, <<32, 36>>, <<33, 37>>, <<34, 38>>, <<35, 39>>,
     <<36, 40>>, <<37, 41>>, <<38, 42>>, <<39, 43>>, <<40, 44>>, <<41, 45>>,
     <<42, 48>>, <<43, 49>>, <<44, 50>>, <<45, 51>>, <<46, 52>>, <<47, 53>>,
     <<48, 54>>, <<49, 55>>, <<50, 56>>, <<51, 57>>, <<52, 58>>, <<53, 59>>,
     <<55, 47>> >>

\* the same pairs, 1-indexed
oneIndexedChannelMap ==
  << <<1, 1>>, <<2, 2>>, <<3, 3>>, <<4, 4>>, <<5, 5>>, <<6, 6>>, <<7, 7>>, <<8, 8>>,
     <<9, 9>>, <<10, 10>>, <<11, 11>>, <<12, 12>>,
     <<13, 17>>, <<14, 18>>, <<15, 19>>, <<16, 20>>, <<17, 21>>, <<18, 22>>,
     <<19, 23>>, <<20, 24>>, <<21, 25>>, <<22, 26>>, <<23, 27>>, <<24, 28>>,
     <<25, 29>>, <<26, 30>>, <<27, 31>>, <<28, 32>>, <<29, 33>>, <<30, 34>>,
     <<31, 35>>, <<32, 36>>, <<33, 37>>, <<34, 38>>, <<35, 39>>, <<36, 40>>,
     <<37, 41>>, <<38, 42>>, <<39, 43>>, <<40, 44>>, <<41, 45>>, <<42, 46>>,
     <<43, 49>>, <<44, 50>>, <<45, 51>>, <<46, 52>>, <<47, 53>>, <<48, 54>>,
     <<49, 55>>, <<50, 56>>, <<51, 57>>, <<52, 58>>, <<53, 59>>, <<54, 60>>,
     <<56, 48>> >>

\* constexpr auto& channelMap = defaultChannelMap
channelMap == defaultChannelMap

\* the range-for of the four lookups: the first entry, in table order, whose
\* component `key` equals x yields its component `val`; none yields `dflt`
RECURSIVE FirstMatch(_, _, _, _, _, _)
FirstMatch(map, i, key, val, x, dflt) ==
  IF i > Len(map) THEN dflt
  ELSE IF map[i][key] = x THEN map[i][val]
  ELSE FirstMatch(map, i + 1, key, val, x, dflt)

\* a lookup whose default is the sentinel instead of the pass-through
getOutputChannelNoPassThrough(audioFileChannel) ==
  FirstMatch(defaultChannelMap, 1, 1, 2, audioFileChannel, 0 - 1)

getOutputChannel(audioFileChannel) ==
  FirstMatch(defaultChannelMap, 1, 1, 2, audioFileChannel, audioFileChannel)

\* an inverse lookup that compares the file channel of an entry
getInputChannelByFile(allosphereChannel) ==
  FirstMatch(defaultChannelMap, 1, 1, 1, allosphereChannel, 0 - 1)

getInputChannel(allosphereChannel) ==
  FirstMatch(defaultChannelMap, 1, 2, 1, allosphereChannel, 0 - 1)

\* a 1-indexed lookup that walks the 0-indexed table
getOutputChannel1IndexedWrongTable(audioFileChannel) ==
  FirstMatch(defaultChannelMap, 1, 1, 2, audioFileChannel, audioFileChannel)

getOutputChannel1Indexed(audioFileChannel) ==
  FirstMatch(oneIndexedChannelMap, 1, 1, 2, audioFileChannel, audioFileChannel)

\* a 1-indexed inverse lookup that walks the 0-indexed table
getInputChannel1IndexedWrongTable(allosphereChannel) ==
  FirstMatch(defaultChannelMap, 1, 2, 1, allosphereChannel, 0 - 1)

getInputChannel1Indexed(allosphereChannel) ==
  FirstMatch(oneIndexedChannelMap, 1, 2, 1, allosphereChannel, 0 - 1)

toOneIndexed(zeroIndexed) == zeroIndexed + 1

toZeroIndexed(oneIndexed) == oneIndexed - 1


(***************************************************************************)
(* Configuration.  main() configures 60 output channels and a 512-frame    *)
(* buffer; the buffer size, the chunk size (60 * 48000 = 5625 buffers),    *)
(* the peak hold time (24 blocks) and the file lengths are scaled down.    *)
(***************************************************************************)
numChannels == 56

expectedChannels == 60

channelsOut == 60

GainDefault == 1

DecayNum == 95

DecayDen == 100

\* io.framesPerBuffer(), and the literal framesPerBuffer of loadAudioFile
framesPerBuffer == 2

\* chunkSize counted in render buffers
ChunkBlocks == 2

chunkSize == ChunkBlocks * framesPerBuffer

peakHoldFrames == 2

\* the gain steps a control event sets: muted and the default
GainSet == {0, GainDefault}

\* The directory scanned by onInit, in sorted order: a file with the default
\* 56 channels that ends one frame into its second chunk, a shorter
\* 54-channel file, and a file that cannot be opened.
audioFiles ==
  << [channels |-> numChannels, frames |-> chunkSize + 1, ok |-> TRUE],
     [channels |-> numChannels - 2, frames |-> framesPerBuffer + 1, ok |-> TRUE],
     [channels |-> 0, frames |-> 0, ok |-> FALSE] >>

\* the sample the decoder yields for (file, frame, channel): full scale, with a
\* sign pattern of period 3 along frames and channels that differs per file
FileSample(file, frame, ch) == IF (file + frame + ch) % 3 = 0 THEN 0 - 1 ELSE 1

\* soundFile.seek(start); soundFile.read(dst, n): n frames, interleaved with
\* the stride of the file's own channel count
ReadFrames(file, start, n) ==
  LET fc == audioFiles[file].channels
  IN  [j \in 1..(n * fc) |-> FileSample(file, start + ((j - 1) \div fc), (j - 1) % fc)]

\* std::vector::resize(n, fill): existing elements are kept
Resize(vec, n, fill) == [j \in 1..n |-> IF j <= Len(vec) THEN vec[j] ELSE fill]

\* a read of Len(data) samples stored at the start of vec
WriteAt(vec, data) == [j \in 1..Len(vec) |-> IF j <= Len(data) THEN data[j] ELSE vec[j]]

Abs(x) == IF x < 0 THEN 0 - x ELSE x

\* multiplication by meterDecayRate
Decay(x) == (x * DecayNum) \div DecayDen

\* content of a device buffer sample the callback has not written
Stale == 0 - 1000

Frames == 0..(framesPerBuffer - 1)

OutChannels == 0..(channelsOut - 1)

StaleBuffer == [k \in Frames |-> [ch \in OutChannels |-> Stale]]

ZeroRow == [ch \in OutChannels |-> 0]

\* values an out-of-range read of audioData may yield
Garbage == {0 - 1, 0, 1}

VARIABLES
  started,            \* onInit has run
  opened,             \* soundFile.opened()
  openFile,           \* index into audioFiles of the file soundFile holds
  selectedFileIndex,  \* 0-based, as in the source
  frameCounter, playing, loop, gain, streamingMode,
  currentChunkStart, currentChunkFrames, audioData,
  channelLevels, channelPeaks, peakHoldCounters,
  out,                \* the device buffer io.out(ch, frame): as the callback left
                      \* it, unwritten again once the device has taken it back
  last,               \* history: the latest operation and what it sourced
  lookupArg,          \* the argument a caller passes to a channelMapping.hpp helper
  lookupFn,           \* the helpers applied so far, each to the previous result
  lookupRes,          \* the value returned by the latest of them
  loadPc,             \* where the control thread stands inside loadAudioFile
  wasPlaying,         \* the local wasPlaying of loadAudioFile
  soundPc,            \* where the audio thread stands inside onSound
  seen,               \* history: what the running callback has read so far
  owner               \* history: the file each part of the state was set up for

playerVars ==
  << started, opened, openFile, selectedFileIndex, frameCounter, playing, loop, gain,
     streamingMode, currentChunkStart, currentChunkFrames, audioData,
     channelLevels, channelPeaks, peakHoldCounters, out, last >>

lookupVars == << lookupFn, lookupArg, lookupRes >>

threadVars == << loadPc, wasPlaying, soundPc, seen, owner >>

\* what no callback of the player taken as a whole touches
otherVars == << lookupVars, threadVars >>

vars == << playerVars, lookupVars, threadVars >>

\* soundFile.frames()
soundFileFrames == audioFiles[openFile].frames

\* history record of an operation that is not a playing render
Event(op, path) ==
  [op |-> op, path |-> path, pre |-> 0, start |-> 0, count |-> 0, oob |-> FALSE]

\* the member initialisers of adm_player
InitPlayer ==
  /\ started = FALSE
  /\ opened = FALSE
  /\ openFile = 0
  /\ selectedFileIndex = 0
  /\ frameCounter = 0
  /\ playing = FALSE
  /\ loop = TRUE
  /\ gain = GainDefault
  /\ streamingMode = TRUE
  /\ currentChunkStart = 0
  /\ currentChunkFrames = 0
  /\ audioData = << >>
  /\ channelLevels = << >>
  /\ channelPeaks = << >>
  /\ peakHoldCounters = << >>
  /\ out = StaleBuffer
  /\ last = Event("construct", "")

InitLookup ==
  /\ lookupFn = << >>
  /\ lookupArg = 0
  /\ lookupRes = 0

\* no callback is under way; nothing is set up for any file yet
NoneSeen == [path |-> "", frames |-> 0, cursor |-> 0, chunk |-> 0, meters |-> 0,
             start |-> 0, count |-> 0]

InitThreads ==
  /\ loadPc = "idle"
  /\ wasPlaying = FALSE
  /\ soundPc = "idle"
  /\ seen = NoneSeen
  /\ owner = [chunk |-> 0, cursor |-> 0, meters |-> 0, switches |-> 0]


(***************************************************************************)
(* adm_player::loadAudioChunk and adm_player::loadAudioFile                *)
(***************************************************************************)
\* chunkFrames of loadAudioChunk: the chunk is clamped to the end of the file
ChunkFrames(file, chunkStartFrame) ==
  IF chunkStartFrame + chunkSize > audioFiles[file].frames
  THEN audioFiles[file].frames - chunkStartFrame
  ELSE chunkSize

\* audioData after loadAudioChunk: resized to chunkFrames * numChannels, then
\* filled by a read of chunkFrames frames of the open file
ChunkData(file, data, chunkStartFrame) ==
  WriteAt(Resize(data, ChunkFrames(file, chunkStartFrame) * numChannels, 0),
          ReadFrames(file, chunkStartFrame, ChunkFrames(file, chunkStartFrame)))

\* loadAudioFile(audioFiles[idx]) with streamingMode = streaming.  A failed
\* open returns after playing = false and leaves soundFile closed.
loadAudioFile(idx, streaming) ==
  IF ~audioFiles[idx + 1].ok
  THEN /\ playing' = FALSE
       /\ opened' = FALSE
       /\ openFile' = 0
       /\ UNCHANGED << frameCounter, currentChunkStart, currentChunkFrames, audioData,
                       channelLevels, channelPeaks, peakHoldCounters >>
  ELSE /\ opened' = TRUE
       /\ openFile' = idx + 1
       /\ IF streaming
          THEN /\ audioData' = ChunkData(idx + 1, audioData, 0)
               /\ currentChunkStart' = 0
               /\ currentChunkFrames' = ChunkFrames(idx + 1, 0)
          ELSE UNCHANGED << audioData, currentChunkStart, currentChunkFrames >>
       /\ frameCounter' = 0
       /\ channelLevels' = Resize(channelLevels, expectedChannels, 0)
       /\ channelPeaks' = Resize(channelPeaks, expectedChannels, 0)
       /\ peakHoldCounters' = Resize(peakHoldCounters, expectedChannels, 0)
       /\ playing' = playing

\* onInit: streaming forced on, the directory scanned, the selected file loaded
OnInit ==
  /\ ~started
  /\ started' = TRUE
  /\ streamingMode' = TRUE
  /\ selectedFileIndex' =
       IF selectedFileIndex < 0 \/ selectedFileIndex >= Len(audioFiles)
       THEN 0 ELSE selectedFileIndex
  /\ loadAudioFile(selectedFileIndex', TRUE)
  /\ last' = Event("onInit", "")
  /\ out' = StaleBuffer
  /\ UNCHANGED << loop, gain, otherVars >>

\* onKeyDown '1'..'9' and the file combo of onDraw
SelectFile(idx) ==
  /\ started
  /\ idx < Len(audioFiles)
  /\ idx # selectedFileIndex
  /\ selectedFileIndex' = idx
  /\ loadAudioFile(idx, streamingMode)
  /\ last' = Event("selectFile", IF audioFiles[idx + 1].ok THEN "loaded" ELSE "failed")
  /\ out' = StaleBuffer
  /\ UNCHANGED << started, loop, gain, streamingMode, otherVars >>

(***************************************************************************)
(* Control events of onKeyDown and onDraw                                  *)
(***************************************************************************)
nonTransport ==
  << started, opened, openFile, selectedFileIndex, currentChunkStart, currentChunkFrames,
     audioData, channelLevels, channelPeaks, peakHoldCounters, otherVars >>

\* space key, Play/Pause button
TogglePlay ==
  /\ started
  /\ playing' = ~playing
  /\ last' = Event("togglePlay", "")
  /\ out' = StaleBuffer
  /\ UNCHANGED << frameCounter, loop, gain, streamingMode, nonTransport >>

\* a Stop that pauses where playback stands
StopKeepsCursor ==
  /\ started
  /\ playing' = FALSE
  /\ last' = Event("stop", "")
  /\ out' = StaleBuffer
  /\ UNCHANGED << frameCounter, loop, gain, streamingMode, nonTransport >>

\* Stop button
Stop ==
  /\ started
  /\ playing' = FALSE
  /\ frameCounter' = 0
  /\ last' = Event("stop", "")
  /\ out' = StaleBuffer
  /\ UNCHANGED << loop, gain, streamingMode, nonTransport >>

\* a Rewind that also pauses
RewindPauses ==
  /\ started
  /\ frameCounter' = 0
  /\ playing' = FALSE
  /\ last' = Event("rewind", "")
  /\ out' = StaleBuffer
  /\ UNCHANGED << loop, gain, streamingMode, nonTransport >>

\* 'r' key, Rewind button
Rewind ==
  /\ started
  /\ frameCounter' = 0
  /\ last' = Event("rewind", "")
  /\ out' = StaleBuffer
  /\ UNCHANGED << playing, loop, gain, streamingMode, nonTransport >>

\* 'l' key, Loop checkbox
ToggleLoop ==
  /\ started
  /\ loop' = ~loop
  /\ last' = Event("toggleLoop", "")
  /\ out' = StaleBuffer
  /\ UNCHANGED << frameCounter, playing, gain, streamingMode, nonTransport >>

\* Gain slider
SetGain(g) ==
  /\ started
  /\ g # gain
  /\ gain' = g
  /\ last' = Event("setGain", "")
  /\ out' = StaleBuffer
  /\ UNCHANGED << frameCounter, playing, loop, streamingMode, nonTransport >>

\* Streaming Mode checkbox: the flag flips, nothing is reloaded
ToggleStreaming ==
  /\ started
  /\ streamingMode' = ~streamingMode
  /\ last' = Event("toggleStreaming", "")
  /\ out' = StaleBuffer
  /\ UNCHANGED << frameCounter, playing, loop, gain, nonTransport >>


(***************************************************************************)
(* adm_player::onSound                                                     *)
(***************************************************************************)
\* while (io()) for (ch) io.out(ch) = 0.0f
Silence == [k \in Frames |-> ZeroRow]

\* vec[idx] of a std::vector (0-based); a read outside it yields g
At(vec, idx, g) == IF idx >= 0 /\ idx < Len(vec) THEN vec[idx + 1] ELSE g

\* an end-of-file check that never wraps
WrappedCursorNoWrap == frameCounter

\* a wrap that lands one frame into the file
WrappedCursorPastFirst == IF frameCounter >= soundFileFrames THEN 1 ELSE frameCounter

\* the cursor after the end-of-file check of a playing render with loop on
WrappedCursor == IF frameCounter >= soundFileFrames THEN 0 ELSE frameCounter

\* a block that is never shortened
AdjustedFramesFull(cursor) == framesPerBuffer

\* numFrames after "Adjust numFrames if we're near the end"
AdjustedFrames(cursor) ==
  IF cursor + framesPerBuffer > soundFileFrames
  THEN soundFileFrames - cursor
  ELSE framesPerBuffer

\* a chunk check that always asks for the first chunk
RequiredChunkStartFirst(cursor) == 0

RequiredChunkStart(cursor) == (cursor \div chunkSize) * chunkSize

\* outputs that are not cleared
ClearedSampleKept(v) == v

\* "Clear all outputs first": io.out(ch, frame) = 0.0f over the old content v
ClearedSample(v) == 0

\* "Bounds check" of a mapping entry
InBounds(fileChannel, outputChannel) ==
  fileChannel < numChannels /\ outputChannel < channelsOut

\* the condition of the mapping loop
MappingLoop(i) == i < NUM_CHANNELS /\ i < numChannels

\* the mapping loop reaches index i and its bounds check passes
Applied(i) ==
  /\ \A j \in 0..i : MappingLoop(j)
  /\ InBounds(channelMap[i + 1][1], channelMap[i + 1][2])

AppliedEntries == {i \in 0..(NUM_CHANNELS - 1) : Applied(i)}

SetMax(S) == CHOOSE x \in S : \A y \in S : y <= x

\* the applied entries that write output channel o, in one pass of the loop
Writers == [o \in OutChannels |-> {i \in AppliedEntries : channelMap[i + 1][2] = o}]

\* the entry whose write to o is the last of the pass (-1: none writes o)
LastWriter == [o \in OutChannels |-> IF Writers[o] = {} THEN 0 - 1 ELSE SetMax(Writers[o])]

\* float sample = buffer[frame * numChannels + fileChannel] * gain
Scaled(sample, g) == sample * g

MappedSample(buf, frame, i) ==
  Scaled(buf[frame * numChannels + channelMap[i + 1][1] + 1], gain)

\* one frame of the frame loop: every output cleared, then the mapping loop
RenderRow(prev, frame, buf) ==
  [o \in OutChannels |->
     IF LastWriter[o] >= 0 THEN MappedSample(buf, frame, LastWriter[o])
     ELSE ClearedSample(prev[o])]

\* the device buffer after the frame loop over numFrames frames
RenderFrames(prevOut, numFrames, buf) ==
  [k \in Frames |-> IF k < numFrames THEN RenderRow(prevOut[k], k, buf) ELSE prevOut[k]]

\* maxLevels after the frame loop: per output channel the largest fabsf(sample)
\* an entry wrote to it, 0.0f where none did
MaxLevels(numFrames, buf, o) ==
  SetMax({0} \cup {Abs(MappedSample(buf, k, i)) :
                     k \in 0..(numFrames - 1), i \in Writers[o]})

\* trailing frames that are left as the device handed them over
FillRemainingSkipped(o, numFrames) == o

\* "Fill remaining frames with silence if we read fewer frames"
FillRemaining(o, numFrames) ==
  [k \in Frames |-> IF k >= numFrames THEN ZeroRow ELSE o[k]]

\* "Smooth decay for current level", "Update with new max if higher"
MeterLevel(level, maxLevel) ==
  IF maxLevel > Decay(level) THEN maxLevel ELSE Decay(level)

\* a peak that decays whenever it is not exceeded
MeterPeakNoHold(peak, counter, maxLevel) ==
  IF maxLevel > peak THEN maxLevel ELSE Decay(peak)

\* "Update peak hold"
MeterPeak(peak, counter, maxLevel) ==
  IF maxLevel > peak THEN maxLevel
  ELSE IF counter > 0 THEN peak ELSE Decay(peak)

MeterCounter(peak, counter, maxLevel) ==
  IF maxLevel > peak THEN peakHoldFrames
  ELSE IF counter > 0 THEN counter - 1 ELSE counter

\* The first numFrames * numChannels samples of buffer when the frame loop
\* starts.  buffer is scratch space of onSound, at least framesPerBuffer *
\* numChannels long, and the frame loop reads only these samples.  Streaming:
\* they are copied from audioData at local frame cursor - chunkStart, and a
\* copy from outside audioData yields g.  Otherwise the file is read into
\* buffer, and what the read does not reach keeps older content, g.
BlockSamples(data, chunkStart, cursor, numFrames, g) ==
  IF streamingMode
  THEN [i \in 1..(numFrames * numChannels) |->
          At(data, (cursor - chunkStart) * numChannels + (i - 1), g)]
  ELSE LET fc == audioFiles[openFile].channels
       IN  [i \in 1..(numFrames * numChannels) |->
              IF i <= numFrames * fc
              THEN FileSample(openFile, cursor + ((i - 1) \div fc), (i - 1) % fc)
              ELSE g]

\* whether the streaming copy reads outside audioData
CopyOutOfRange(data, chunkStart, cursor, numFrames) ==
  /\ numFrames > 0
  /\ \/ cursor - chunkStart < 0
     \/ (cursor - chunkStart + numFrames) * numChannels > Len(data)

\* "Check if we need to load a new chunk"
Reload(cursor) == streamingMode /\ RequiredChunkStart(cursor) # currentChunkStart

ChunkStartFor(cursor) ==
  IF Reload(cursor) THEN RequiredChunkStart(cursor) ELSE currentChunkStart

ChunkDataFor(cursor) ==
  IF Reload(cursor) THEN ChunkData(openFile, audioData, RequiredChunkStart(cursor))
  ELSE audioData

\* A render step calls loadAudioChunk: audioData.resize, soundFile.seek,
\* soundFile.read and a line on std::cout, all inside the callback.
loadAudioChunkCalled ==
  /\ last'.op = "onSound" /\ last'.path = "play"
  /\ Reload(last'.start)

\* A render step constructs std::vector<float> maxLevels(io.channelsOut()):
\* every render that gets past the end check does.
maxLevelsAllocated == last'.op = "onSound" /\ last'.path = "play"

\* "Check if we need to load a new chunk", with frameCounter read as `cursor`
ChunkCheck(cursor) ==
  /\ audioData' = ChunkDataFor(cursor)
  /\ currentChunkStart' = ChunkStartFor(cursor)
  /\ currentChunkFrames' =
       IF Reload(cursor) THEN ChunkFrames(openFile, RequiredChunkStart(cursor))
       ELSE currentChunkFrames

\* From "Get pointer to current frame" to "Fill remaining frames": numFrames
\* frames copied from the chunk as it now is, with frameCounter read as
\* `cursor`, then the frame loop, the meter loop and the fill.
CopyAndMeter(cursor, numFrames, g) ==
  LET buf == BlockSamples(audioData', currentChunkStart', cursor, numFrames, g)
  IN  /\ out' = FillRemaining(RenderFrames(StaleBuffer, numFrames, buf), numFrames)
      /\ channelLevels' =
           [j \in 1..Len(channelLevels) |->
              IF j - 1 < channelsOut
              THEN MeterLevel(channelLevels[j], MaxLevels(numFrames, buf, j - 1)) ELSE channelLevels[j]]
      /\ channelPeaks' =
           [j \in 1..Len(channelPeaks) |->
              IF j - 1 < channelsOut
              THEN MeterPeak(channelPeaks[j], peakHoldCounters[j], MaxLevels(numFrames, buf, j - 1))
              ELSE channelPeaks[j]]
      /\ peakHoldCounters' =
           [j \in 1..Len(peakHoldCounters) |->
              IF j - 1 < channelsOut
              THEN MeterCounter(channelPeaks[j], peakHoldCounters[j], MaxLevels(numFrames, buf, j - 1))
              ELSE peakHoldCounters[j]]

\* The render of numFrames frames from `cursor`, from the chunk check to the
\* advance of frameCounter, which holds `base` when it is advanced.
PlayBlockFrom(cursor, numFrames, base, g) ==
  /\ ChunkCheck(cursor)
  /\ CopyAndMeter(cursor, numFrames, g)
  /\ frameCounter' = base + numFrames
  /\ last' = [op |-> "onSound", path |-> "play", pre |-> frameCounter,
              start |-> cursor, count |-> numFrames,
              oob |-> streamingMode
                      /\ CopyOutOfRange(audioData', currentChunkStart', cursor,
                                        numFrames)]

\* a block whose advance is always the full device block
PlayBlockFullAdvance(cursor, g) ==
  PlayBlockFrom(cursor, AdjustedFrames(cursor),
                cursor + framesPerBuffer - AdjustedFrames(cursor), g)

\* the render of a block from `cursor` once playback is known to continue
PlayBlock(cursor, g) == PlayBlockFrom(cursor, AdjustedFrames(cursor), cursor, g)

\* the values g a playing render from `cursor` can meet
Unspecified(cursor) ==
  IF \/ /\ streamingMode
        /\ CopyOutOfRange(ChunkDataFor(cursor), ChunkStartFor(cursor), cursor,
                          AdjustedFrames(cursor))
     \/ /\ ~streamingMode
        /\ audioFiles[openFile].channels < numChannels
        /\ AdjustedFrames(cursor) > 0
  THEN Garbage ELSE {0}

\* no file open: silence
SoundClosed ==
  /\ ~opened
  /\ out' = Silence
  /\ last' = Event("onSound", "closed")
  /\ UNCHANGED << frameCounter, playing, currentChunkStart, currentChunkFrames,
                  audioData, channelLevels, channelPeaks, peakHoldCounters >>

\* a paused render that also returns to the start
SoundPausedRewinds ==
  /\ opened /\ ~playing
  /\ out' = Silence
  /\ frameCounter' = 0
  /\ last' = Event("onSound", "paused")
  /\ UNCHANGED << playing, currentChunkStart, currentChunkFrames,
                  audioData, channelLevels, channelPeaks, peakHoldCounters >>

\* not playing: silence
SoundPaused ==
  /\ opened /\ ~playing
  /\ out' = Silence
  /\ last' = Event("onSound", "paused")
  /\ UNCHANGED << frameCounter, playing, currentChunkStart, currentChunkFrames,
                  audioData, channelLevels, channelPeaks, peakHoldCounters >>

\* an end of stream that also rewinds
SoundEndedRewinds ==
  /\ opened /\ playing
  /\ frameCounter >= soundFileFrames /\ ~loop
  /\ playing' = FALSE
  /\ frameCounter' = 0
  /\ out' = Silence
  /\ last' = Event("onSound", "ended")
  /\ UNCHANGED << currentChunkStart, currentChunkFrames,
                  audioData, channelLevels, channelPeaks, peakHoldCounters >>

\* an end of stream that leaves playing set
SoundEndedKeepsPlaying ==
  /\ opened /\ playing
  /\ frameCounter >= soundFileFrames /\ ~loop
  /\ out' = Silence
  /\ last' = Event("onSound", "ended")
  /\ UNCHANGED << playing, frameCounter, currentChunkStart, currentChunkFrames,
                  audioData, channelLevels, channelPeaks, peakHoldCounters >>

\* at the end with loop off: playback stops, silence
SoundEnded ==
  /\ opened /\ playing
  /\ frameCounter >= soundFileFrames /\ ~loop
  /\ playing' = FALSE
  /\ out' = Silence
  /\ last' = Event("onSound", "ended")
  /\ UNCHANGED << frameCounter, currentChunkStart, currentChunkFrames,
                  audioData, channelLevels, channelPeaks, peakHoldCounters >>

\* playing: a block is sourced, after the wrap to 0 when at the end with loop on
SoundPlay ==
  /\ opened /\ playing
  /\ ~(frameCounter >= soundFileFrames /\ ~loop)
  /\ \E g \in Unspecified(WrappedCursor) : PlayBlock(WrappedCursor, g)
  /\ UNCHANGED playing

onSound ==
  /\ started
  /\ \/ SoundClosed
     \/ SoundPaused
     \/ SoundEnded
     \/ SoundPlay
  /\ UNCHANGED << started, opened, openFile, selectedFileIndex, loop, gain,
                  streamingMode, otherVars >>

Init == InitPlayer /\ InitLookup /\ InitThreads

\* The player in the streaming mode that onInit forces: renders and control
\* events, each taken as a whole between two callbacks.
Next ==
  \/ OnInit
  \/ onSound
  \/ TogglePlay
  \/ Stop
  \/ Rewind
  \/ ToggleLoop
  \/ \E g \in GainSet : SetGain(g)
  \/ \E idx \in 0..(Len(audioFiles) - 1) : SelectFile(idx)

Spec == Init /\ [][Next]_vars

\* The player with the audio device running: once started (main calls
\* start() after configureAudio) the device keeps invoking onSound, so the
\* callback that is due is eventually made.  The control events
\* are the keys of onKeyDown: space, 'r', 'l' and the file keys.
NextLive ==
  \/ OnInit
  \/ onSound
  \/ TogglePlay
  \/ Rewind
  \/ ToggleLoop
  \/ \E idx \in 0..(Len(audioFiles) - 1) : SelectFile(idx)

\* What a render that finds a file open and playing set does to the
\* transport: at the end with loop off it clears playing, else it leaves the
\* cursor after the block it sourced.  Such a render always has something to
\* do, and fairness is stated on this part of it.
RenderTransport ==
  /\ started /\ opened /\ playing
  /\ IF frameCounter >= soundFileFrames /\ ~loop
     THEN playing' = FALSE /\ frameCounter' = frameCounter
     ELSE playing' = playing
          /\ frameCounter' = WrappedCursor + AdjustedFrames(WrappedCursor)

SpecLive == Init /\ [][NextLive]_vars /\ WF_<< frameCounter, playing >>(RenderTransport)

\* The player with the Streaming Mode checkbox: files are loaded and played
\* while the mode is switched; loop and gain stay as constructed.
NextStreaming ==
  \/ OnInit
  \/ onSound
  \/ TogglePlay
  \/ ToggleStreaming
  \/ \E idx \in 0..(Len(audioFiles) - 1) : SelectFile(idx)

SpecStreaming == Init /\ [][NextStreaming]_vars

(***************************************************************************)
(* Callers of the channelMapping.hpp helpers: an argument is drawn and the *)
(* helpers are applied, each to the result of the one before.              *)
(***************************************************************************)
\* arguments range over -ArgBelow .. ArgAbove
ArgBelow == 2

ArgAbove == 62

\* number of helper calls a caller chains
MaxCalls == 2

ArgRange == (0 - ArgBelow)..ArgAbove

InitMap ==
  /\ InitPlayer
  /\ InitThreads
  /\ lookupArg \in ArgRange
  /\ lookupFn = << >>
  /\ lookupRes = lookupArg

Call(name, result) ==
  /\ Len(lookupFn) < MaxCalls
  /\ lookupFn' = Append(lookupFn, name)
  /\ lookupRes' = result
  /\ UNCHANGED << lookupArg, playerVars, threadVars >>

CallGetOutputChannel == Call("getOutputChannel", getOutputChannel(lookupRes))

CallGetInputChannel == Call("getInputChannel", getInputChannel(lookupRes))

CallGetOutputChannel1Indexed ==
  Call("getOutputChannel1Indexed", getOutputChannel1Indexed(lookupRes))

CallGetInputChannel1Indexed ==
  Call("getInputChannel1Indexed", getInputChannel1Indexed(lookupRes))

CallToOneIndexed == Call("toOneIndexed", toOneIndexed(lookupRes))

CallToZeroIndexed == Call("toZeroIndexed", toZeroIndexed(lookupRes))

NextMap ==
  \/ CallGetOutputChannel
  \/ CallGetInputChannel
  \/ CallGetOutputChannel1Indexed
  \/ CallGetInputChannel1Indexed
  \/ CallToOneIndexed
  \/ CallToZeroIndexed

SpecMap == InitMap /\ [][NextMap]_vars


(***************************************************************************)
(* A file switch on the control thread while the audio thread renders.     *)
(* The source takes no lock and uses no atomics, so the statements of      *)
(* loadAudioFile and of onSound interleave: each action below is one group *)
(* of statements of one of the two.                                        *)
(***************************************************************************)
\* file switches in a run
MaxSwitches == 1

\* onInit has loaded the first file, and playback may have been started
InitSwitch ==
  /\ started = TRUE
  /\ opened = TRUE
  /\ openFile = 1
  /\ selectedFileIndex = 0
  /\ frameCounter = 0
  /\ playing \in BOOLEAN
  /\ loop = TRUE
  /\ gain = GainDefault
  /\ streamingMode = TRUE
  /\ currentChunkStart = 0
  /\ currentChunkFrames = ChunkFrames(1, 0)
  /\ audioData = ChunkData(1, << >>, 0)
  /\ channelLevels = Resize(<< >>, expectedChannels, 0)
  /\ channelPeaks = Resize(<< >>, expectedChannels, 0)
  /\ peakHoldCounters = Resize(<< >>, expectedChannels, 0)
  /\ out = StaleBuffer
  /\ last = Event("onInit", "")
  /\ InitLookup
  /\ loadPc = "idle"
  /\ wasPlaying = FALSE
  /\ soundPc = "idle"
  /\ seen = NoneSeen
  /\ owner = [chunk |-> 1, cursor |-> 1, meters |-> 1, switches |-> 0]

\* onKeyDown selects file idx, one that opens; loadAudioFile: "Stop playback
\* during load"
LoadBegin(idx) ==
  /\ started /\ loadPc = "idle"
  /\ owner.switches < MaxSwitches
  /\ idx < Len(audioFiles)
  /\ idx # selectedFileIndex
  /\ audioFiles[idx + 1].ok
  /\ selectedFileIndex' = idx
  /\ wasPlaying' = playing
  /\ playing' = FALSE
  /\ loadPc' = "open"
  /\ owner' = [owner EXCEPT !.switches = @ + 1]
  /\ UNCHANGED << started, opened, openFile, frameCounter, loop, gain, streamingMode,
                  currentChunkStart, currentChunkFrames, audioData, channelLevels,
                  channelPeaks, peakHoldCounters, out, last, lookupVars,
                  soundPc, seen >>

\* soundFile.openRead(audioPath)
LoadOpen ==
  /\ loadPc = "open"
  /\ opened' = TRUE
  /\ openFile' = selectedFileIndex + 1
  /\ loadPc' = "chunk"
  /\ UNCHANGED << started, selectedFileIndex, frameCounter, playing, loop, gain,
                  streamingMode, currentChunkStart, currentChunkFrames, audioData,
                  channelLevels, channelPeaks, peakHoldCounters, out, last, lookupVars,
                  wasPlaying, soundPc, seen, owner >>

\* "For streaming mode, load first chunk"
LoadChunk ==
  /\ loadPc = "chunk"
  /\ IF streamingMode
     THEN /\ audioData' = ChunkData(openFile, audioData, 0)
          /\ currentChunkStart' = 0
          /\ currentChunkFrames' = ChunkFrames(openFile, 0)
          /\ owner' = [owner EXCEPT !.chunk = openFile]
     ELSE UNCHANGED << audioData, currentChunkStart, currentChunkFrames, owner >>
  /\ loadPc' = "cursor"
  /\ UNCHANGED << started, opened, openFile, selectedFileIndex, frameCounter, playing,
                  loop, gain, streamingMode, channelLevels, channelPeaks,
                  peakHoldCounters, out, last, lookupVars, wasPlaying, soundPc, seen >>

\* "Reset playback position"
LoadCursor ==
  /\ loadPc = "cursor"
  /\ frameCounter' = 0
  /\ owner' = [owner EXCEPT !.cursor = openFile]
  /\ loadPc' = "meters"
  /\ UNCHANGED << started, opened, openFile, selectedFileIndex, playing, loop, gain,
                  streamingMode, currentChunkStart, currentChunkFrames, audioData,
                  channelLevels, channelPeaks, peakHoldCounters, out, last, lookupVars,
                  wasPlaying, soundPc, seen >>

\* "Resize buffers for new channel count"
LoadMeters ==
  /\ loadPc = "meters"
  /\ channelLevels' = Resize(channelLevels, expectedChannels, 0)
  /\ channelPeaks' = Resize(channelPeaks, expectedChannels, 0)
  /\ peakHoldCounters' = Resize(peakHoldCounters, expectedChannels, 0)
  /\ owner' = [owner EXCEPT !.meters = openFile]
  /\ loadPc' = "resume"
  /\ UNCHANGED << started, opened, openFile, selectedFileIndex, frameCounter, playing,
                  loop, gain, streamingMode, currentChunkStart, currentChunkFrames,
                  audioData, out, last, lookupVars, wasPlaying, soundPc, seen >>

\* "Resume playback if was playing"
LoadResume ==
  /\ loadPc = "resume"
  /\ playing' = wasPlaying
  /\ loadPc' = "idle"
  /\ UNCHANGED << started, opened, openFile, selectedFileIndex, frameCounter, loop,
                  gain, streamingMode, currentChunkStart, currentChunkFrames, audioData,
                  channelLevels, channelPeaks, peakHoldCounters, out, last, lookupVars,
                  wasPlaying, soundPc, seen, owner >>

\* onSound up to the playing check: silence when no file is open or playback
\* is paused, else the callback goes on
SoundBegin ==
  /\ started /\ soundPc = "idle"
  /\ IF ~opened \/ ~playing
     THEN /\ out' = Silence
          /\ seen' = [NoneSeen EXCEPT !.path = "silent"]
          /\ soundPc' = "idle"
          /\ last' = Event("onSound", IF ~opened THEN "closed" ELSE "paused")
     ELSE /\ out' = StaleBuffer
          /\ seen' = [NoneSeen EXCEPT !.path = "begun"]
          /\ soundPc' = "window"
          /\ UNCHANGED last
  /\ UNCHANGED << started, opened, openFile, selectedFileIndex, frameCounter, playing,
                  loop, gain, streamingMode, currentChunkStart, currentChunkFrames,
                  audioData, channelLevels, channelPeaks, peakHoldCounters, lookupVars,
                  loadPc, wasPlaying, owner >>

\* "Check if we're at the end", "Adjust numFrames if we're near the end":
\* frameCounter and soundFile.frames() are read
SoundWindow ==
  /\ soundPc = "window"
  /\ IF frameCounter >= soundFileFrames /\ ~loop
     THEN /\ playing' = FALSE
          /\ out' = Silence
          /\ seen' = [seen EXCEPT !.path = "ended"]
          /\ soundPc' = "idle"
          /\ last' = Event("onSound", "ended")
          /\ UNCHANGED frameCounter
     ELSE /\ frameCounter' = WrappedCursor
          /\ seen' = [seen EXCEPT !.path = "window",
                                  !.frames = openFile,
                                  !.cursor = owner.cursor,
                                  !.start = WrappedCursor,
                                  !.count = AdjustedFrames(WrappedCursor)]
          /\ soundPc' = "block"
          /\ UNCHANGED << playing, out, last >>
  /\ UNCHANGED << started, opened, openFile, selectedFileIndex, loop, gain,
                  streamingMode, currentChunkStart, currentChunkFrames, audioData,
                  channelLevels, channelPeaks, peakHoldCounters, lookupVars,
                  loadPc, wasPlaying, owner >>

\* the rest of onSound, from the chunk check to the advance: the chunk and
\* the meter arrays are read and written
SoundBlock ==
  /\ soundPc = "block"
  /\ \E g \in Garbage : PlayBlockFrom(seen.start, seen.count, frameCounter, g)
  /\ owner' = [owner EXCEPT !.chunk = IF Reload(seen.start) THEN openFile ELSE @]
  /\ seen' = [seen EXCEPT !.path = "play",
                          !.chunk = owner'.chunk,
                          !.meters = owner.meters]
  /\ soundPc' = "idle"
  /\ UNCHANGED << started, opened, openFile, selectedFileIndex, playing, loop, gain,
                  streamingMode, lookupVars, loadPc, wasPlaying >>

NextSwitch ==
  \/ \E idx \in 0..(Len(audioFiles) - 1) : LoadBegin(idx)
  \/ LoadOpen
  \/ LoadChunk
  \/ LoadCursor
  \/ LoadMeters
  \/ LoadResume
  \/ SoundBegin
  \/ SoundWindow
  \/ SoundBlock

SpecSwitch == InitSwitch /\ [][NextSwitch]_vars

(***************************************************************************)
(* Rewind and Stop on the control thread while the audio thread renders.   *)
(* frameCounter is a plain uint64_t that onSound reads again at the chunk  *)
(* check, at the copy and at the advance, and that the control thread      *)
(* sets to 0 at any moment; each action below is one of these statement    *)
(* groups, after SoundBegin and SoundWindow.                                *)
(***************************************************************************)
\* "Check if we need to load a new chunk": frameCounter is read
SoundChunk ==
  /\ soundPc = "block"
  /\ ChunkCheck(frameCounter)
  /\ soundPc' = "copy"
  /\ UNCHANGED << started, opened, openFile, selectedFileIndex, frameCounter, playing,
                  loop, gain, streamingMode, channelLevels, channelPeaks,
                  peakHoldCounters, out, last, lookupVars, loadPc, wasPlaying, seen,
                  owner >>

\* localFrame = frameCounter - currentChunkStart, the copy of the numFrames
\* frames settled before, the frame loop, the meters and the fill;
\* frameCounter is read again
SoundCopy ==
  /\ soundPc = "copy"
  /\ UNCHANGED << audioData, currentChunkStart, currentChunkFrames >>
  /\ \E g \in IF CopyOutOfRange(audioData, currentChunkStart, frameCounter, seen.count)
               THEN Garbage ELSE {0} :
       CopyAndMeter(frameCounter, seen.count, g)
  /\ last' = [op |-> "onSound", path |-> "play", pre |-> seen.start,
              start |-> frameCounter, count |-> seen.count,
              oob |-> CopyOutOfRange(audioData, currentChunkStart, frameCounter,
                                     seen.count)]
  /\ soundPc' = "advance"
  /\ UNCHANGED << started, opened, openFile, selectedFileIndex, frameCounter, playing,
                  loop, gain, streamingMode, lookupVars, loadPc, wasPlaying, seen,
                  owner >>

\* frameCounter += numFrames: frameCounter is read and written
SoundAdvance ==
  /\ soundPc = "advance"
  /\ frameCounter' = frameCounter + seen.count
  /\ seen' = [seen EXCEPT !.path = "play"]
  /\ soundPc' = "idle"
  /\ UNCHANGED << started, opened, openFile, selectedFileIndex, playing, loop, gain,
                  streamingMode, currentChunkStart, currentChunkFrames, audioData,
                  channelLevels, channelPeaks, peakHoldCounters, out, last, lookupVars,
                  loadPc, wasPlaying, owner >>

\* 'r' key or Rewind button while a callback is under way
RewindDuringSound ==
  /\ soundPc # "idle"
  /\ frameCounter' = 0
  /\ UNCHANGED << started, opened, openFile, selectedFileIndex, playing, loop, gain,
                  streamingMode, currentChunkStart, currentChunkFrames, audioData,
                  channelLevels, channelPeaks, peakHoldCounters, out, last, otherVars >>

\* Stop button while a callback is under way
StopDuringSound ==
  /\ soundPc # "idle"
  /\ playing' = FALSE
  /\ frameCounter' = 0
  /\ UNCHANGED << started, opened, openFile, selectedFileIndex, loop, gain,
                  streamingMode, currentChunkStart, currentChunkFrames, audioData,
                  channelLevels, channelPeaks, peakHoldCounters, out, last, otherVars >>

\* the same events, and Play/Pause, between two callbacks
RewindBetween == soundPc = "idle" /\ Rewind

StopBetween == soundPc = "idle" /\ Stop

TogglePlayBetween == soundPc = "idle" /\ TogglePlay

NextRewind ==
  \/ SoundBegin
  \/ SoundWindow
  \/ SoundChunk
  \/ SoundCopy
  \/ SoundAdvance
  \/ RewindDuringSound
  \/ StopDuringSound
  \/ RewindBetween
  \/ StopBetween
  \/ TogglePlayBetween

SpecRewind == InitSwitch /\ [][NextRewind]_vars

(***************************************************************************)
(* The meter loop of onSound on its own: the arrays as loadAudioFile sizes *)
(* them, updated block after block with a block peak drawn per block.      *)
(***************************************************************************)
\* full scale of a meter input; two decays of it are exact
MeterAmp == DecayDen * DecayDen

\* the block peaks a block can have
BlockPeaks == {0, MeterAmp \div 4, MeterAmp \div 2, MeterAmp}

\* meter updates in a run
MaxMeterUpdates == 6

InitMeter ==
  /\ started = TRUE
  /\ opened = TRUE
  /\ openFile = 1
  /\ selectedFileIndex = 0
  /\ frameCounter = 0
  /\ playing = TRUE
  /\ loop = TRUE
  /\ gain = GainDefault
  /\ streamingMode = TRUE
  /\ currentChunkStart = 0
  /\ currentChunkFrames = ChunkFrames(1, 0)
  /\ audioData = ChunkData(1, << >>, 0)
  /\ channelLevels = Resize(<< >>, expectedChannels, 0)
  /\ channelPeaks = Resize(<< >>, expectedChannels, 0)
  /\ peakHoldCounters = Resize(<< >>, expectedChannels, 0)
  /\ out = StaleBuffer
  /\ last = [op |-> "loaded", blockPeak |-> 0, transient |-> 0, since |-> 0,
             updates |-> 0]
  /\ InitLookup
  /\ InitThreads

\* "Update meters with max levels from this buffer", every channel with the
\* block peak maxLevel; the history keeps the latest peak that exceeded the
\* stored one and counts the updates since
MeterUpdate(maxLevel) ==
  /\ last.updates < MaxMeterUpdates
  /\ channelLevels' =
       [j \in 1..Len(channelLevels) |-> MeterLevel(channelLevels[j], maxLevel)]
  /\ channelPeaks' =
       [j \in 1..Len(channelPeaks) |->
          MeterPeak(channelPeaks[j], peakHoldCounters[j], maxLevel)]
  /\ peakHoldCounters' =
       [j \in 1..Len(peakHoldCounters) |->
          MeterCounter(channelPeaks[j], peakHoldCounters[j], maxLevel)]
  /\ last' = [op |-> "meterUpdate", blockPeak |-> maxLevel,
              transient |-> IF maxLevel > channelPeaks[1] THEN maxLevel
                            ELSE last.transient,
              since |-> IF maxLevel > channelPeaks[1] THEN 0 ELSE last.since + 1,
              updates |-> last.updates + 1]
  /\ UNCHANGED << started, opened, openFile, selectedFileIndex, frameCounter, playing,
                  loop, gain, streamingMode, currentChunkStart, currentChunkFrames,
                  audioData, out, otherVars >>

NextMeter == \E maxLevel \in BlockPeaks : MeterUpdate(maxLevel)

SpecMeter == InitMeter /\ [][NextMeter]_vars

(***************************************************************************)
(* Properties                                                              *)
(***************************************************************************)
Rendered == last.op = "onSound"

\* the latest operation was a render that sourced a block
Played == last.op = "onSound" /\ last.path = "play"

FileChannelsOf(map) == {map[i][1] : i \in 1..Len(map)}

OutputChannelsOf(map) == {map[i][2] : i \in 1..Len(map)}

NoDuplicates(map) ==
  /\ Cardinality(FileChannelsOf(map)) = Len(map)
  /\ Cardinality(OutputChannelsOf(map)) = Len(map)

\* the fields of the player, without the device buffer and the history
playerState ==
  << opened, openFile, selectedFileIndex, frameCounter, playing, loop, gain,
     streamingMode, currentChunkStart, currentChunkFrames, audioData,
     channelLevels, channelPeaks, peakHoldCounters >>

\* C1: after every render, whichever path it took (no file open, paused,
\* ended, playing, shortened last block), every sample of the device buffer
\* has been written by that render.
C1_EveryOutputSampleWritten ==
  Rendered => \A k \in Frames : \A ch \in OutChannels : out[k][ch] # Stale

\* a render with loop off has sourced a shortened last block
C1_Witness ==
  /\ Played /\ ~loop
  /\ last.count > 0 /\ last.count < framesPerBuffer
  /\ \A k \in Frames : \A ch \in OutChannels : out[k][ch] # Stale

\* C2: while a file is open the cursor lies in 0 .. frames of that file, after
\* any sequence of renders and control events.
C2_CursorWithinFile ==
  opened => (frameCounter >= 0 /\ frameCounter <= soundFileFrames)

\* a render has brought the cursor to the end of the second file
C2_Witness ==
  /\ Played /\ opened /\ openFile = 2
  /\ frameCounter = soundFileFrames

\* C3 as stated: with loop on, a block that reaches the end of the file
\* mid-block continues from file frame 0 within the same block, so the cursor
\* afterwards is the number of frames sourced past the wrap.
C3_WrapsWithinBlock ==
  (Played /\ loop /\ last.start + framesPerBuffer > soundFileFrames)
    => frameCounter = last.start + framesPerBuffer - soundFileFrames

\* C3 amended: with loop on, a block that reaches the end of the file
\* mid-block sources only the frames up to the end, zero-fills the rest of
\* the block and leaves the cursor at the end; the render that starts at the
\* end is the one that sources from frame 0.
C3_WrapsAtNextRender ==
  /\ (Played /\ loop /\ last.start + framesPerBuffer > soundFileFrames)
       => /\ last.count = soundFileFrames - last.start
          /\ frameCounter = soundFileFrames
          /\ \A k \in Frames : k >= last.count => out[k] = ZeroRow
  /\ (Played /\ last.pre >= soundFileFrames)
       => /\ loop
          /\ last.start = 0
          /\ frameCounter = last.count

\* with loop on, a render has sourced a shortened block that ends the file
C3_Witness ==
  /\ Played /\ loop
  /\ last.start + framesPerBuffer > soundFileFrames
  /\ last.count > 0
  /\ frameCounter = soundFileFrames
  /\ out[framesPerBuffer - 1] = ZeroRow

\* C4: with loop off and the cursor at the end of the open file, a render
\* emits zeros only, leaves playing false and the cursor where it is; and a
\* render that follows a silent render there changes neither the state nor
\* the output.
C4_EndOfStreamIdempotent ==
  [][ (last'.op = "onSound" /\ opened /\ ~loop /\ frameCounter = soundFileFrames)
        => /\ out' = Silence
           /\ ~playing'
           /\ frameCounter' = frameCounter
           /\ (Rendered /\ last.path # "play")
                => (playerState' = playerState /\ out' = out) ]_vars

\* a render has met the end of the stream with loop off
C4_Witness ==
  /\ Rendered /\ last.path = "ended"
  /\ opened /\ ~loop /\ ~playing
  /\ frameCounter = soundFileFrames
  /\ out = Silence

\* C5: in a playing render every sourced frame k and every entry (f, o) within
\* the channels of the open file and of the device gives
\* out(o, k) = fileSample(cursor + k, f) * gain.
C5_GainLinearity ==
  Played =>
    \A k \in 0..(last.count - 1) : \A i \in 1..NUM_CHANNELS :
      (channelMap[i][1] < audioFiles[openFile].channels /\ channelMap[i][2] < channelsOut)
        => out[k][channelMap[i][2]]
             = FileSample(openFile, last.start + k, channelMap[i][1]) * gain

C7_AppliedIffInRange ==
  (Played /\ last.count > 0) =>
    AppliedEntries =
      {i \in 0..(NUM_CHANNELS - 1) :
         /\ channelMap[i + 1][1] < audioFiles[openFile].channels
         /\ channelMap[i + 1][2] < channelsOut}

\* C8: neither table repeats a file channel or an output channel, and for the
\* file channel f of every entry the inverse lookup of the lookup of f is f,
\* in the 0-indexed and in the 1-indexed table.
C8_RoundTrip ==
  /\ NoDuplicates(defaultChannelMap)
  /\ NoDuplicates(oneIndexedChannelMap)
  /\ (/\ lookupFn = << "getOutputChannel", "getInputChannel" >>
      /\ lookupArg \in FileChannelsOf(defaultChannelMap))
       => lookupRes = lookupArg
  /\ (/\ lookupFn = << "getOutputChannel1Indexed", "getInputChannel1Indexed" >>
      /\ lookupArg \in FileChannelsOf(oneIndexedChannelMap))
       => lookupRes = lookupArg

\* the round trip of the subwoofer entry: 55 -> 47 -> 55
C8_Witness ==
  /\ lookupFn = << "getOutputChannel", "getInputChannel" >>
  /\ lookupArg = 55
  /\ lookupRes = 55

\* C9: a lookup of a file channel that no entry has returns the argument, an
\* inverse lookup of an output channel that no entry has returns -1, and
\* every call returns an integer.
C9_Defaults ==
  /\ (lookupFn = << "getOutputChannel" >>
      /\ lookupArg \notin FileChannelsOf(defaultChannelMap))
       => lookupRes = lookupArg
  /\ (lookupFn = << "getInputChannel" >>
      /\ lookupArg \notin OutputChannelsOf(defaultChannelMap))
       => lookupRes = 0 - 1
  /\ (lookupFn = << "getOutputChannel1Indexed" >>
      /\ lookupArg \notin FileChannelsOf(oneIndexedChannelMap))
       => lookupRes = lookupArg
  /\ (lookupFn = << "getInputChannel1Indexed" >>
      /\ lookupArg \notin OutputChannelsOf(oneIndexedChannelMap))
       => lookupRes = 0 - 1
  /\ lookupRes \in Int

\* the inverse lookup of the skipped output 46 returned the sentinel
C9_Witness ==
  /\ lookupFn = << "getInputChannel" >>
  /\ lookupArg = 46
  /\ lookupRes = 0 - 1

\* C10: for every file channel f in 0..59 the 1-indexed lookup of f + 1 is the
\* 0-indexed lookup of f, plus 1; and toZeroIndexed undoes toOneIndexed.
C10_TablesShiftedByOne ==
  /\ (lookupFn = << "toOneIndexed", "getOutputChannel1Indexed" >>
      /\ lookupArg \in 0..59)
       => lookupRes = toOneIndexed(getOutputChannel(lookupArg))
  /\ lookupFn = << "toOneIndexed", "toZeroIndexed" >> => lookupRes = lookupArg

\* the subwoofer entry through the 1-indexed table: 55 -> 56 -> 48
C10_Witness ==
  /\ lookupFn = << "toOneIndexed", "getOutputChannel1Indexed" >>
  /\ lookupArg = 55
  /\ lookupRes = 48

C12_ResidentChunkMatchesCursor ==
  (Played /\ streamingMode /\ last.count > 0) =>
    /\ currentChunkStart = (last.start \div chunkSize) * chunkSize
    /\ currentChunkFrames =
         IF soundFileFrames - currentChunkStart < chunkSize
         THEN soundFileFrames - currentChunkStart ELSE chunkSize
    /\ currentChunkStart + currentChunkFrames <= soundFileFrames
    /\ currentChunkStart <= last.start
    /\ last.start < currentChunkStart + currentChunkFrames

\* C13: with chunkSize a multiple of the render buffer size, after any
\* sequence of renders, transport controls and file switches, every frame a
\* playing render in streaming mode read lies in the resident chunk, and no
\* sample was copied from outside audioData.
C13_BlockInsideResidentChunk ==
  (Played /\ streamingMode) =>
    /\ \A k \in 0..(last.count - 1) :
         /\ currentChunkStart <= last.start + k
         /\ last.start + k < currentChunkStart + currentChunkFrames
    /\ ~last.oob
    /\ (last.start - currentChunkStart + last.count) * numChannels <= Len(audioData)

\* a render has sourced the frame of the short last chunk of the first file
C13_Witness ==
  /\ Played /\ streamingMode
  /\ chunkSize % framesPerBuffer = 0
  /\ currentChunkStart > 0
  /\ currentChunkFrames < chunkSize
  /\ last.count > 0

Max(a, b) == IF a > b THEN a ELSE b

\* the largest absolute sample of output channel ch in the device buffer o
OutPeak(o, ch) == SetMax({0} \cup {Abs(o[k][ch]) : k \in Frames})

\* the meter arrays have the size loadAudioFile gives them
MetersSized ==
  /\ Len(channelLevels) = expectedChannels
  /\ Len(channelPeaks) = expectedChannels
  /\ Len(peakHoldCounters) = expectedChannels

\* C14: over every render block, for every output channel, the level becomes
\* max(previous level * meterDecayRate, largest absolute sample of the block
\* on that channel), so that it decays by meterDecayRate over every silent
\* block that follows a transient, and it is never negative.
C14_LevelFollowsBlockPeak ==
  [][ (last'.op = "onSound" /\ MetersSized)
        => \A ch \in OutChannels :
             /\ channelLevels'[ch + 1]
                  = Max(Decay(channelLevels[ch + 1]), OutPeak(out', ch))
             /\ channelLevels'[ch + 1] >= 0 ]_vars

\* C15: a render that emits only silence because no file is open, playback is
\* paused or the stream has ended performs the meter update, with block peak
\* 0, once for every channel: level decay and peak-hold step.
C15_MetersStepInSilentRenders ==
  [][ (/\ last'.op = "onSound"
       /\ last'.path \in {"closed", "paused", "ended"}
       /\ MetersSized)
        => \A j \in 1..expectedChannels :
             /\ channelLevels'[j] = MeterLevel(channelLevels[j], 0)
             /\ channelPeaks'[j] = MeterPeak(channelPeaks[j], peakHoldCounters[j], 0)
             /\ peakHoldCounters'[j]
                  = MeterCounter(channelPeaks[j], peakHoldCounters[j], 0) ]_vars

RECURSIVE DecayTimes(_, _)
\* x multiplied n times by meterDecayRate
DecayTimes(x, n) == IF n <= 0 THEN x ELSE DecayTimes(Decay(x), n - 1)

\* C16: after a block peak M that exceeded the stored peak, and as long as no
\* later block peak exceeds the stored peak, the peak is M over the next
\* peakHoldFrames meter updates, the hold counter stepping down from
\* peakHoldFrames to 0, and each update after those multiplies the peak by
\* meterDecayRate.
C16_PeakHeldThenDecays ==
  (last.op = "meterUpdate" /\ last.transient > 0) =>
    \A j \in 1..expectedChannels :
      /\ last.since <= peakHoldFrames
           => /\ channelPeaks[j] = last.transient
              /\ peakHoldCounters[j] = peakHoldFrames - last.since
      /\ last.since > peakHoldFrames
           => /\ channelPeaks[j] = DecayTimes(last.transient, last.since - peakHoldFrames)
              /\ channelPeaks[j] < last.transient
              /\ peakHoldCounters[j] = 0
      /\ last.since = peakHoldFrames + 1
           => channelPeaks[j] * DecayDen = last.transient * DecayNum

\* a full-scale peak was held for peakHoldFrames updates and the update after
\* them has decayed it once
C16_Witness ==
  /\ last.op = "meterUpdate"
  /\ last.transient = MeterAmp
  /\ last.since = peakHoldFrames + 1
  /\ channelPeaks[1] = Decay(MeterAmp)
  /\ peakHoldCounters[1] = 0

\* C17: a render callback that has sourced a block, whether or not a file
\* switch ran meanwhile, has read the frame count, the cursor, the resident
\* chunk and the meter arrays of one and the same file.
C17_RenderSeesOneFile ==
  (soundPc = "idle" /\ seen.path = "play") =>
    /\ seen.cursor = seen.frames
    /\ seen.chunk = seen.frames
    /\ seen.meters = seen.frames

\* C18: a loadAudioFile that fails to open the file reports failure and
\* leaves playing, the cursor, the open file, the resident chunk and the
\* meters as they were before the call.
C18_FailedLoadKeepsState ==
  [][ (last'.op = "selectFile" /\ ~audioFiles[selectedFileIndex' + 1].ok)
        => /\ last'.path = "failed"
           /\ playing' = playing
           /\ frameCounter' = frameCounter
           /\ opened' = opened /\ openFile' = openFile
           /\ UNCHANGED << currentChunkStart, currentChunkFrames, audioData >>
           /\ UNCHANGED << channelLevels, channelPeaks, peakHoldCounters >> ]_vars

\* C19: after a file switch whose load succeeded the cursor is 0 and every
\* entry of channelLevels, channelPeaks and peakHoldCounters is 0.
C19_SwitchResetsCursorAndMeters ==
  (last.op = "selectFile" /\ last.path = "loaded") =>
    /\ frameCounter = 0
    /\ \A j \in 1..Len(channelLevels) : channelLevels[j] = 0
    /\ \A j \in 1..Len(channelPeaks) : channelPeaks[j] = 0
    /\ \A j \in 1..Len(peakHoldCounters) : peakHoldCounters[j] = 0

\* C20: Stop, in whatever transport state it is issued (stopped, paused,
\* playing, ended), leaves playing false and the cursor 0, and changes
\* neither loop nor gain.
C20_StopResetsTransport ==
  [][ last'.op = "stop"
        => /\ playing' = FALSE
           /\ frameCounter' = 0
           /\ loop' = loop
           /\ gain' = gain ]_vars

\* Stop was issued with loop off and the gain at 0: both are as they were,
\* playback is stopped at frame 0
C20_Witness ==
  /\ last.op = "stop"
  /\ ~playing /\ frameCounter = 0
  /\ ~loop /\ gain = 0
  /\ opened

\* C21: Rewind, in whatever transport state it is issued, leaves the cursor 0
\* and changes none of playing, loop and gain.
C21_RewindKeepsPlayState ==
  [][ last'.op = "rewind"
        => /\ frameCounter' = 0
           /\ playing' = playing
           /\ loop' = loop
           /\ gain' = gain ]_vars

\* Rewind was issued during playback with loop off and the gain at 0:
\* playback goes on from frame 0, loop and gain are as they were
C21_Witness ==
  /\ last.op = "rewind"
  /\ playing /\ frameCounter = 0
  /\ ~loop /\ gain = 0
  /\ opened

\* C22: a render with no file open or with playing false writes 0 to every
\* sample of the device buffer and changes none of the cursor, playing, loop,
\* gain and the bounds of the resident chunk; a Play that follows a paused
\* render keeps the cursor, and the render after that Play reads this cursor
\* and, when it lies before the end of the file, sources from it.
C22_SilentRenderKeepsCursor ==
  [][ /\ (last'.op = "onSound" /\ last'.path \in {"closed", "paused"})
           => /\ out' = Silence
              /\ frameCounter' = frameCounter
              /\ playing' = playing
              /\ loop' = loop
              /\ gain' = gain
              /\ currentChunkStart' = currentChunkStart
              /\ currentChunkFrames' = currentChunkFrames
      /\ (Rendered /\ last.path = "paused" /\ last'.op = "togglePlay")
           => (playing' /\ frameCounter' = frameCounter)
      /\ (last.op = "togglePlay" /\ opened /\ playing /\ last'.op = "onSound")
           => /\ last'.path \in {"play", "ended"}
              /\ last'.path = "play" => last'.pre = frameCounter
              /\ frameCounter < soundFileFrames
                   => (last'.path = "play" /\ last'.start = frameCounter) ]_vars

\* playback was paused in the middle of the file and a render emitted
\* silence there
C22_Witness ==
  /\ Rendered /\ last.path = "paused"
  /\ opened /\ ~playing
  /\ frameCounter > 0 /\ frameCounter < soundFileFrames
  /\ out = Silence

\* C23: no render seeks or reads the file, resizes or allocates a buffer, or
\* writes to the console: a render step never calls loadAudioChunk, leaves
\* audioData and the bounds of the resident chunk as they are, and constructs
\* no vector.
C23_RenderNeverLoadsOrAllocates ==
  [][ last'.op = "onSound"
        => /\ ~loadAudioChunkCalled
           /\ Len(audioData') = Len(audioData)
           /\ audioData' = audioData
           /\ currentChunkStart' = currentChunkStart
           /\ currentChunkFrames' = currentChunkFrames
           /\ ~maxLevelsAllocated ]_vars

Min(a, b) == IF a < b THEN a ELSE b

\* C24: a playing render that starts with the cursor c before the end F of
\* the file sources min(N, F - c) frames from c and advances the cursor by
\* that many; one that starts with c = F and loop on sources min(N, F) frames
\* from 0 and leaves the cursor at that count.  Frames of the block beyond
\* the sourced ones are zeros.
C24_SourcesAndAdvancesByAvailable ==
  Played =>
    /\ last.pre < soundFileFrames
         => /\ last.start = last.pre
            /\ last.count = Min(framesPerBuffer, soundFileFrames - last.pre)
            /\ frameCounter = last.pre + last.count
    /\ last.pre = soundFileFrames
         => /\ loop
            /\ last.start = 0
            /\ last.count = Min(framesPerBuffer, soundFileFrames)
            /\ frameCounter = last.count
    /\ last.pre <= soundFileFrames
    /\ \A k \in Frames : k >= last.count => out[k] = ZeroRow

\* with loop on a render started at the end of the second file and sourced a
\* full block from frame 0
C24_Witness ==
  /\ Played /\ loop /\ openFile = 2
  /\ last.pre = soundFileFrames
  /\ last.start = 0
  /\ last.count = framesPerBuffer
  /\ frameCounter = framesPerBuffer

\* C25: once a file has been loaded, the stride numChannels is the channel
\* count of the open file, and a playing render in streaming mode finds the
\* sample of (frame, channel) of that file at offset
\* (frame - currentChunkStart) * numChannels + channel of audioData.
C25_StrideIsFileChannelCount ==
  /\ (opened /\ last.op \in {"onInit", "selectFile"})
       => numChannels = audioFiles[openFile].channels
  /\ (Played /\ streamingMode)
       => \A k \in 0..(last.count - 1) :
            \A f \in 0..(audioFiles[openFile].channels - 1) :
              At(audioData, (last.start + k - currentChunkStart) * numChannels + f, Stale)
                = FileSample(openFile, last.start + k, f)

\* audioData starts with the frames [start, start + ChunkFrames) of `file`
HoldsChunkOf(file, start) ==
  LET rf == ReadFrames(file, start, ChunkFrames(file, start))
  IN  /\ Len(audioData) >= Len(rf)
      /\ \A j \in 1..Len(rf) : audioData[j] = rf[j]

\* C26: after a successful loadAudioFile in streaming mode the resident chunk
\* is frames [0, min(chunkSize, frames)) of the file now open; and whatever
\* the streaming mode was when the file was loaded, a later playing render in
\* streaming mode copies from a resident chunk that holds frames of the open
\* file, never of the file open before.
C26_ResidentChunkIsOfOpenFile ==
  /\ (last.op = "selectFile" /\ last.path = "loaded" /\ streamingMode)
       => /\ currentChunkStart = 0
          /\ currentChunkFrames = Min(chunkSize, soundFileFrames)
          /\ HoldsChunkOf(openFile, 0)
  /\ (Played /\ streamingMode)
       => /\ currentChunkFrames = ChunkFrames(openFile, currentChunkStart)
          /\ HoldsChunkOf(openFile, currentChunkStart)

\* C27: with loop on, of two playing renders that follow each other the first,
\* when its block reaches the end F of the file, sources only the F - cursor
\* frames that remain, zero-fills the rest of its block and leaves the cursor
\* at F, and the second then starts at frame 0; otherwise the second starts
\* at the frame after the last one the first sourced.  So the frames run
\* ..., F-1, 0, 1, ... with none skipped and none repeated; for a file of
\* numChannels channels the samples written are those of these frames.
C27_SeamAtBlockGranularity ==
  [][ (Played /\ loop /\ last'.op = "onSound")
        => /\ last'.path = "play"
           /\ last'.count > 0
           /\ last.start + last.count <= soundFileFrames
           /\ last.start + framesPerBuffer >= soundFileFrames
                => /\ last.count = soundFileFrames - last.start
                   /\ frameCounter = soundFileFrames
                   /\ \A k \in Frames : k >= last.count => out[k] = ZeroRow
                   /\ last'.pre = soundFileFrames
                   /\ last'.start = 0
           /\ last.start + framesPerBuffer < soundFileFrames
                => last'.start = last.start + last.count
           /\ audioFiles[openFile].channels = numChannels
                => \A k \in 0..(last'.count - 1) : \A i \in AppliedEntries :
                     out'[k][channelMap[i + 1][2]]
                       = FileSample(openFile, last'.start + k, channelMap[i + 1][1]) * gain
     ]_vars

\* the first file has been played to its end with loop on and the next
\* render has sourced its first frames again, from a reloaded first chunk
C27_Witness ==
  /\ Played /\ loop /\ openFile = 1 /\ gain # 0
  /\ last.pre = soundFileFrames
  /\ last.start = 0 /\ last.count = framesPerBuffer
  /\ currentChunkStart = 0
  /\ out[0][channelMap[1][2]] = FileSample(1, 0, channelMap[1][1]) * gain

\* the stream has ended: a render found the cursor at the end of the file
\* with loop off and cleared playing
Ended ==
  /\ Rendered /\ last.path = "ended"
  /\ ~playing /\ frameCounter = soundFileFrames

\* C28: after a playing render with loop off, the renders that follow bring
\* the cursor to the end of the file and the one after that clears playing,
\* unless a control event comes first: each render before the end moves the
\* cursor forward and the render at the end clears playing and emits
\* silence.  Until a control event comes, every render made after that emits
\* silence and leaves playing and the cursor as they are.
C28_PlaysOutThenSilent ==
  /\ (Played /\ playing /\ ~loop) ~> (Ended \/ ~Rendered)
  /\ [][ (opened /\ playing /\ last'.op = "onSound")
           => /\ RenderTransport
              /\ (frameCounter < soundFileFrames /\ ~loop)
                   => (playing' /\ frameCounter' > frameCounter)
              /\ (frameCounter = soundFileFrames /\ ~loop)
                   => (~playing' /\ out' = Silence) ]_vars
  /\ [][ (Ended /\ last'.op = "onSound")
           => /\ out' = Silence
              /\ ~playing'
              /\ frameCounter' = frameCounter
              /\ last'.path = "paused" ]_vars

\* the first file was played with loop off through its second chunk to the
\* end, and the render there has stopped playback
C28_Witness ==
  /\ Ended /\ ~loop /\ opened /\ openFile = 1
  /\ currentChunkStart = chunkSize
  /\ out = Silence

\* C29: when Play is pressed with the transport ended (loop off, cursor at
\* the end of the file, playing false), the render that follows sources file
\* frames and leaves playing set, instead of ending again with silence.
C29_PlayAfterEndResumes ==
  [][ (/\ last.op = "togglePlay" /\ playing
       /\ opened /\ ~loop /\ frameCounter = soundFileFrames
       /\ last'.op = "onSound")
        => /\ last'.path = "play"
           /\ last'.count > 0
           /\ playing'
           /\ out' # Silence ]_vars

\* C30: a playing render that has run to its end, with Rewind or Stop events
\* of the control thread falling between its steps or not, has copied only
\* from inside the resident chunk (frameCounter - currentChunkStart was not
\* negative and the copy ended within audioData), and leaves the cursor
\* either at 0 or right after the frames it sourced.
C30_RenderSafeUnderRewind ==
  (soundPc = "idle" /\ Played) =>
    /\ ~last.oob
    /\ last.start - currentChunkStart >= 0
    /\ (last.start - currentChunkStart + last.count) * numChannels <= Len(audioData)
    /\ frameCounter \in {0, last.start + last.count}

\* C31: after every meter update the held peak of every channel is at least
\* its smoothed level, whatever the sequence of block peaks, a sustained
\* signal of constant magnitude included.
C31_PeakAtLeastLevel ==
  last.op = "meterUpdate" =>
    \A j \in 1..expectedChannels : channelPeaks[j] >= channelLevels[j]

\* C32: getOutputChannel gives different file channels in 0..59 different
\* outputs, the pass-through of a file channel without an entry included, so
\* that the inverse lookup of the lookup of f is f or -1.
C32_LookupInjective ==
  /\ (lookupFn = << "getOutputChannel" >> /\ lookupArg \in 0..59)
       => \A f \in 0..59 : f # lookupArg => getOutputChannel(f) # lookupRes
  /\ (lookupFn = << "getOutputChannel", "getInputChannel" >> /\ lookupArg \in 0..59)
       => lookupRes \in {lookupArg, 0 - 1}

====
